---- MODULE Spec2Model ----
(***************************************************************************)
(* Model of futurepedia_mcp/server.py (mcp-universal-crawler): the format  *)
(* aware extractors, the heading anchored section extractor, the sitemap   *)
(* and schema extractors and the batch crawl.                              *)
(*                                                                         *)
(* Text is a sequence of one-character strings (a few multi-character      *)
(* tokens stand for a character run nothing looks into).  An HTML document *)
(* is the sequence of its elements in document order, as BeautifulSoup's   *)
(* find_all / select visit them; an element is [name, texts, attr] with    *)
(* texts the raw text nodes below it.                                      *)
(***************************************************************************)
EXTENDS Integers, Sequences, FiniteSets, TLC

VARIABLES
    cm,     \* crawl_many: urls, the web it fetches from, loop index, results
    lk,     \* the link collecting loop of _extract_html_content
    call,   \* a crawl_url / crawl_file invocation and its environment
    ret,    \* what that invocation returned or raised
    sm,     \* a crawl_sitemap invocation and its result
    xs,     \* an extract_structured invocation: schema loop and output
    sec     \* a section query (list / narrative / what-is) and its result

vars == <<cm, lk, call, ret, sm, xs, sec>>

Idle == [pc |-> "idle"]

(***************************************************************************)
(* Python str operations, on sequences of characters.                      *)
(***************************************************************************)
Whitespace == {" ", "\n", "\t"}

UpperAlpha ==
    <<"A","B","C","D","E","F","G","H","I","J","K","L","M",
      "N","O","P","Q","R","S","T","U","V","W","X","Y","Z">>

LowerAlpha ==
    <<"a","b","c","d","e","f","g","h","i","j","k","l","m",
      "n","o","p","q","r","s","t","u","v","w","x","y","z">>

LowerOf ==
    [c \in {UpperAlpha[i] : i \in 1..Len(UpperAlpha)} |->
        LowerAlpha[CHOOSE i \in 1..Len(UpperAlpha) : UpperAlpha[i] = c]]

lower_char(c) == IF c \in DOMAIN LowerOf THEN LowerOf[c] ELSE c

\* str.lower()
lower(s) == [i \in 1..Len(s) |-> lower_char(s[i])]

RECURSIVE lstrip(_)
lstrip(s) ==
    IF Len(s) > 0 /\ Head(s) \in Whitespace THEN lstrip(Tail(s)) ELSE s

RECURSIVE rstrip(_)
rstrip(s) ==
    IF Len(s) > 0 /\ s[Len(s)] \in Whitespace
    THEN rstrip(SubSeq(s, 1, Len(s) - 1))
    ELSE s

\* str.strip()
strip(s) == rstrip(lstrip(s))

\* str.startswith(p)
startswith(s, p) == Len(p) <= Len(s) /\ SubSeq(s, 1, Len(p)) = p

\* str.endswith(p)
endswith(s, p) ==
    Len(p) <= Len(s) /\ SubSeq(s, Len(s) - Len(p) + 1, Len(s)) = p

\* p in s
contains(s, p) ==
    \E i \in 1..(Len(s) - Len(p) + 1) : SubSeq(s, i, i + Len(p) - 1) = p

\* sep.join(parts)
RECURSIVE join(_, _)
join(sep, parts) ==
    IF Len(parts) = 0 THEN <<>>
    ELSE IF Len(parts) = 1 THEN parts[1]
    ELSE parts[1] \o sep \o join(sep, Tail(parts))

\* s.split(c)[0]: the text before the first c
RECURSIVE split_first(_, _)
split_first(s, c) ==
    IF Len(s) = 0 \/ Head(s) = c THEN <<>>
    ELSE <<Head(s)>> \o split_first(Tail(s), c)

\* re.sub(r"\s+", " ", text)
RECURSIVE sub_spaces(_)
sub_spaces(s) ==
    IF Len(s) = 0 THEN <<>>
    ELSE IF Head(s) \in Whitespace THEN <<" ">> \o sub_spaces(lstrip(s))
    ELSE <<Head(s)>> \o sub_spaces(Tail(s))

_clean_text(text) == strip(sub_spaces(text))

NonEmpty(t) == Len(t) > 0

\* Tag.get_text(" ", strip=True): the stripped, non-empty text nodes, joined
get_text(texts) ==
    join(<<" ">>, SelectSeq([i \in 1..Len(texts) |-> strip(texts[i])], NonEmpty))

\* the text nodes of a run of elements, in document order
RECURSIVE all_texts(_)
all_texts(els) ==
    IF Len(els) = 0 THEN <<>> ELSE Head(els).texts \o all_texts(Tail(els))

(***************************************************************************)
(* BeautifulSoup lookups over a document.                                  *)
(***************************************************************************)
Named(soup, names) == SelectSeq(soup, LAMBDA el : el.name \in names)

\* soup.select(selector), selector a type selector
select(soup, selector) == Named(soup, {selector})

_extract_text(soup, selector) ==
    LET found == select(soup, selector)
    IN  IF Len(found) > 0 THEN get_text(found[1].texts) ELSE <<>>

HasAttr(el, a) == a \in DOMAIN el.attr

_extract_meta(soup, key, by) ==
    LET found == SelectSeq(soup, LAMBDA el :
                     el.name = "meta" /\ HasAttr(el, by) /\ el.attr[by] = key)
    IN  IF Len(found) > 0 /\ HasAttr(found[1], "content")
                          /\ Len(found[1].attr["content"]) > 0
        THEN strip(found[1].attr["content"])
        ELSE <<>>

or_right_first(a, b) == IF Len(b) > 0 THEN b ELSE a

\* a or b, on strings
Or(a, b) == IF Len(a) > 0 THEN a ELSE b

(***************************************************************************)
(* urllib.parse.urljoin, for the reference shapes the model's documents    *)
(* use: empty, absolute (with a scheme), root relative (/x) and relative   *)
(* (x).  Bases always have a path.                                         *)
(***************************************************************************)
SchemeSep == <<":", "/", "/">>

has_scheme(u) == contains(u, SchemeSep)

\* index of the first "/" at or after position i, 0 when there is none
RECURSIVE find_slash(_, _)
find_slash(u, i) ==
    IF i > Len(u) THEN 0 ELSE IF u[i] = "/" THEN i ELSE find_slash(u, i + 1)

\* index of the last "/" before the query, 0 when there is none
RECURSIVE rfind_slash(_, _)
rfind_slash(u, i) ==
    IF i < 1 THEN 0 ELSE IF u[i] = "/" THEN i ELSE rfind_slash(u, i - 1)

origin_of(base) ==
    IF has_scheme(base)
    THEN LET k == CHOOSE i \in 1..Len(base) :
                      /\ SubSeq(base, i, i + 2) = SchemeSep
                      /\ \A j \in 1..(i - 1) : SubSeq(base, j, j + 2) # SchemeSep
             e == find_slash(base, k + 3)
         IN  IF e = 0 THEN base ELSE SubSeq(base, 1, e - 1)
    ELSE <<>>

dir_of(base) ==
    LET path == split_first(base, "?")
    IN  SubSeq(path, 1, rfind_slash(path, Len(path)))

urljoin(base, href) ==
    IF Len(href) = 0 THEN base
    ELSE IF has_scheme(href) THEN href
    ELSE IF Head(href) = "/" THEN origin_of(base) \o href
    ELSE dir_of(base) \o href

(***************************************************************************)
(* _extract_html_content: the link collecting loop (lines 186-195).        *)
(***************************************************************************)
LinkCap == 50

\* soup.find_all("a", href=True)
anchors_of(soup) ==
    SelectSeq(soup, LAMBDA el : el.name = "a" /\ HasAttr(el, "href"))

\* len(links) >= 50
links_full_off_by_one(links) == Len(links) > LinkCap

links_full(links) == Len(links) >= LinkCap

\* href in seen
seen_has(seen, href) == href \in seen

\* one iteration of the for loop over the anchors; st = [links, seen, stop]
link_step(st, url, a) ==
    LET href == urljoin(url, a.attr["href"])
    IN  IF seen_has(st.seen, href) THEN st
        ELSE LET links == Append(st.links, href)
             IN  [links |-> links,
                  seen  |-> st.seen \cup {href},
                  stop  |-> links_full(links)]

RECURSIVE collect_links(_, _, _)
collect_links(st, url, anchors) ==
    IF st.stop \/ Len(anchors) = 0 THEN st.links
    ELSE collect_links(link_step(st, url, Head(anchors)), url, Tail(anchors))

NoLinks == [links |-> <<>>, seen |-> {}, stop |-> FALSE]

\* BeautifulSoup(html, "html.parser"): markup is a sequence of chunks, each an
\* element or one character of text between elements (name "#text"); the
\* parse joins each run of characters into one text node
RECURSIVE BeautifulSoup(_)
BeautifulSoup(html) ==
    IF Len(html) < 2 THEN html
    ELSE LET rest == BeautifulSoup(Tail(html))
             a    == Head(html)
         IN  IF a.name = "#text" /\ Head(rest).name = "#text"
             THEN <<[Head(rest) EXCEPT !.texts = <<a.texts[1] \o @[1]>>]>> \o Tail(rest)
             ELSE <<a>> \o rest

Decomposed == {"script", "style", "noscript", "iframe"}

_extract_html_content(html, url) ==
    LET soup0       == BeautifulSoup(html)
        title       == Or(_extract_text(soup0, "title"), _extract_text(soup0, "h1"))
        description == Or(_extract_meta(soup0, "description", "name"),
                          _extract_meta(soup0, "og:description", "property"))
        soup        == SelectSeq(soup0, LAMBDA el : el.name \notin Decomposed)
        mains       == select(soup, "main")
        articles    == select(soup, "article")
        main_texts  == IF Len(mains) > 0 THEN mains[1].texts
                       ELSE IF Len(articles) > 0 THEN articles[1].texts
                       ELSE all_texts(soup)
        text        == _clean_text(get_text(main_texts))
    IN  [type        |-> "html",
         url         |-> url,
         title       |-> title,
         description |-> description,
         text        |-> text,
         text_length |-> Len(text),
         links       |-> collect_links(NoLinks, url, anchors_of(soup))]

(***************************************************************************)
(* The link loop, one iteration per step.  lk.soup is the parsed document, *)
(* lk.i the next anchor of find_all("a", href=True) to visit.              *)
(***************************************************************************)
MaxAnchors == 104

Https == <<"h", "t", "t", "p", "s", ":", "/", "/">>

PageUrl == Https \o <<"h", "/", "d", "/", "p", "a", "g", "e">>

\* the three references to path number k that resolve to one absolute URL
HrefShape(k, shape) ==
    CASE shape = 0 -> <<"p", ToString(k)>>
      [] shape = 1 -> <<"/", "d", "/", "p", ToString(k)>>
      [] OTHER     -> Https \o <<"h", "/", "d", "/", "p", ToString(k)>>

Anchor(href) == [name |-> "a", texts |-> <<>>, attr |-> [href |-> href]]

BareAnchor == [name |-> "a", texts |-> <<>>, attr |-> [id |-> "top"]]

\* bounded families of anchor lists: all hrefs distinct, every href twice
\* (in two shapes), three hrefs over and over; every 17th anchor has no href
AnchorFamilies == {"distinct", "pairs", "cycle"}

AnchorAt(family, i) ==
    IF i % 17 = 0 THEN BareAnchor
    ELSE CASE family = "distinct" -> Anchor(HrefShape(i, 0))
           [] family = "pairs"    -> Anchor(HrefShape((i + 1) \div 2, i % 3))
           [] OTHER               -> Anchor(HrefShape(((i - 1) % 3) + 1, (i \div 3) % 3))

AnchorDocs ==
    { [i \in 1..n |-> AnchorAt(f, i)] : n \in 0..MaxAnchors, f \in AnchorFamilies }

LinksInit ==
    /\ lk \in { [pc |-> "loop", url |-> PageUrl, soup |-> d, i |-> 1,
                 st |-> NoLinks] : d \in AnchorDocs }
    /\ cm = Idle /\ call = Idle /\ ret = Idle /\ sm = Idle /\ xs = Idle /\ sec = Idle

\* lines 188-195: the body of the for loop, with its break
LinkLoop ==
    /\ lk.pc = "loop"
    /\ lk.i <= Len(anchors_of(lk.soup))
    /\ LET st == link_step(lk.st, lk.url, anchors_of(lk.soup)[lk.i])
       IN  lk' = [lk EXCEPT !.st = st, !.i = @ + 1,
                            !.pc = IF st.stop THEN "done" ELSE "loop"]
    /\ UNCHANGED <<cm, call, ret, sm, xs, sec>>

\* the iterator is exhausted: fall through to the return at line 197
LinkReturn ==
    /\ lk.pc = "loop"
    /\ lk.i > Len(anchors_of(lk.soup))
    /\ lk' = [lk EXCEPT !.pc = "done"]
    /\ UNCHANGED <<cm, call, ret, sm, xs, sec>>

LinksNext == LinkLoop \/ LinkReturn

SpecLinks == LinksInit /\ [][LinksNext]_vars

\* ---- C3 ----
\* the distinct elements of s, in order of first appearance
RECURSIVE FirstAppearances(_)
FirstAppearances(s) ==
    IF Len(s) = 0 THEN <<>>
    ELSE LET before == FirstAppearances(SubSeq(s, 1, Len(s) - 1))
             last   == s[Len(s)]
         IN  IF \E j \in 1..(Len(s) - 1) : s[j] = last THEN before
             ELSE Append(before, last)

Take(s, n) == SubSeq(s, 1, IF Len(s) < n THEN Len(s) ELSE n)

\* the origin-resolved hrefs of the first n anchors that carry an href
ResolvedHrefs(soup, url, n) ==
    LET withHref == SelectSeq(soup, LAMBDA el : el.name = "a" /\ "href" \in DOMAIN el.attr)
    IN  [i \in 1..n |-> urljoin(url, withHref[i].attr["href"])]

VisitedAnchors ==
    IF lk.pc = "done" THEN Len(anchors_of(lk.soup)) ELSE lk.i - 1

\* C3: at every step of the collecting loop, and at its end, links has no
\* duplicates, at most 50 entries, and is the first 50 distinct resolved
\* hrefs, in order of first appearance, of the anchors visited so far (of all
\* the document's anchors once the loop is over).
C3_LinksFirst50Distinct ==
    lk.pc \in {"loop", "done"} =>
        /\ Len(lk.st.links) <= 50
        /\ \A a, b \in 1..Len(lk.st.links) : a # b => lk.st.links[a] # lk.st.links[b]
        /\ lk.st.links =
               Take(FirstAppearances(ResolvedHrefs(lk.soup, lk.url, VisitedAnchors)), 50)

\* the loop was cut at 50 links on a document with more than 50 distinct
\* hrefs, some of them repeated in another shape
C3_Witness ==
    /\ lk.pc = "done"
    /\ Len(lk.st.links) = 50
    /\ lk.i <= Len(anchors_of(lk.soup))
    /\ Len(FirstAppearances(ResolvedHrefs(lk.soup, lk.url, Len(anchors_of(lk.soup))))) > 50
    /\ \E a, b \in 1..Len(anchors_of(lk.soup)) :
          /\ a < b /\ b < lk.i
          /\ anchors_of(lk.soup)[a].attr["href"] # anchors_of(lk.soup)[b].attr["href"]
          /\ urljoin(lk.url, anchors_of(lk.soup)[a].attr["href"])
               = urljoin(lk.url, anchors_of(lk.soup)[b].attr["href"])

(***************************************************************************)
(* The fetch collaborator and crawl_url.  A web maps a URL to what a GET   *)
(* of it does: net is "ok", "timeout" or "connect"; an "ok" response has a *)
(* status, headers, the parsed body (doc) and the byte size of the body.   *)
(* A call returns [raised |-> FALSE, value] or [raised |-> TRUE, exc].     *)
(***************************************************************************)
Return(v) == [raised |-> FALSE, value |-> v]

Raise(class, msg) == [raised |-> TRUE, exc |-> [class |-> class, msg |-> msg]]

\* requests refuses a URL without a scheme before any traffic
\* lines 258-262
_download(url, web) ==
    IF ~has_scheme(url) THEN Raise("MissingSchema", <<"Invalid URL">>)
    ELSE LET r == web[url]
         IN  IF r.net = "timeout" THEN Raise("Timeout", <<"Read timed out">>)
             ELSE IF r.net = "connect"
                  THEN Raise("ConnectionError", <<"Connection refused">>)
             ELSE IF r.status >= 400
                  THEN Raise("HTTPError", <<ToString(r.status), " Error">>)
             ELSE Return(r)

TextHtml == <<"t", "e", "x", "t", "/", "h", "t", "m", "l">>

AppXhtml == <<"a", "p", "p", "l", "i", "c", "a", "t", "i", "o", "n", "/",
              "x", "h", "t", "m", "l">>

\* (r.headers.get("content-type") or "").lower()
content_type(r) ==
    IF "content-type" \in DOMAIN r.headers
    THEN lower(r.headers["content-type"]) ELSE <<>>

\* lines 279-290
crawl_url(url, web) ==
    LET d == _download(url, web)
    IN  IF d.raised THEN d
        ELSE LET r == d.value
                 ctype == content_type(r)
             IN  IF ~contains(ctype, TextHtml) /\ ~contains(ctype, AppXhtml)
                 THEN Return([type         |-> "non-html",
                              url          |-> url,
                              content_type |-> ctype,
                              size_bytes   |-> r.size])
                 ELSE Return(_extract_html_content(r.doc, url))

(***************************************************************************)
(* crawl_many (lines 293-302), one loop iteration per step.                *)
(***************************************************************************)
BatchCap == 20

\* the classes `except Exception` catches, among those a crawl can raise
ExceptionClasses ==
    {"MissingSchema", "Timeout", "ConnectionError", "HTTPError", "RuntimeError"}

caught_http_only(exc) == exc.class = "HTTPError"

\* except Exception as exc
caught(exc) == exc.class \in ExceptionClasses

batch_uncapped(urls) == urls

\* urls[:20]
batch(urls) == SubSeq(urls, 1, IF Len(urls) < BatchCap THEN Len(urls) ELSE BatchCap)

MaxUrls == 22

El(name, texts) == [name |-> name, texts |-> texts, attr |-> [id |-> "x"]]

SmallDoc ==
    << El("title", << <<"T">> >>),
       El("p", << <<" ", "b", "o", "d", "y", "\n">> >>),
       Anchor(<<"n", "e", "x", "t">>) >>

ContentType(value) == [h \in {"content-type"} |-> value]

OkHtml ==
    [net |-> "ok", status |-> 200, headers |-> ContentType(TextHtml),
     doc |-> SmallDoc, size |-> 40]

OkPdf ==
    [net |-> "ok", status |-> 200,
     headers |-> ContentType(<<"a", "p", "p", "/", "p", "d", "f">>),
     doc |-> <<>>, size |-> 3]

NotFound == [net |-> "ok", status |-> 404, headers |-> [server |-> <<"x">>],
             doc |-> <<>>, size |-> 0]

TimedOut == [net |-> "timeout"]

Refused == [net |-> "connect"]

BatchResponses == {OkHtml, OkPdf, NotFound, TimedOut, Refused}

UrlA == Https \o <<"h", "/", "a">>

UrlB == Https \o <<"h", "/", "b">>

NotAUrl == <<"n", "o", "t", " ", "a", " ", "u", "r", "l">>

UrlPool == <<UrlA, UrlB, NotAUrl>>

\* bounded families of URL lists: one URL repeated, or the pool in rotation
UrlLists ==
    { [i \in 1..n |-> UrlPool[(((i - 1) * stride + off) % Len(UrlPool)) + 1]] :
        n \in 0..MaxUrls, stride \in {0, 1}, off \in 0..(Len(UrlPool) - 1) }

BatchInit ==
    /\ cm \in { [pc |-> "loop", urls |-> u, web |-> w, i |-> 1, results |-> <<>>] :
                  u \in UrlLists, w \in [{UrlA, UrlB} -> BatchResponses] }
    /\ lk = Idle /\ call = Idle /\ ret = Idle /\ sm = Idle /\ xs = Idle /\ sec = Idle

\* lines 297-301: one pass of the loop body
CrawlManyLoop ==
    /\ cm.pc = "loop"
    /\ cm.i <= Len(batch(cm.urls))
    /\ LET url == batch(cm.urls)[cm.i]
           got == crawl_url(url, cm.web)
       IN  IF ~got.raised
           THEN cm' = [cm EXCEPT !.results = Append(@, got.value), !.i = @ + 1]
           ELSE IF caught(got.exc)
           THEN cm' = [cm EXCEPT
                         !.results = Append(@, [type  |-> "error",
                                                url   |-> url,
                                                error |-> got.exc.msg]),
                         !.i = @ + 1]
           ELSE cm' = [cm EXCEPT !.pc = "raised"]
    /\ UNCHANGED <<lk, call, ret, sm, xs, sec>>

\* line 302
CrawlManyReturn ==
    /\ cm.pc = "loop"
    /\ cm.i > Len(batch(cm.urls))
    /\ cm' = [cm EXCEPT !.pc = "done"]
    /\ UNCHANGED <<lk, call, ret, sm, xs, sec>>

BatchNext == CrawlManyLoop \/ CrawlManyReturn

SpecBatch == BatchInit /\ [][BatchNext]_vars

\* a crawl of url fails: no scheme, a timeout, a transport failure, a status >= 400
Fails(url, web) ==
    \/ ~contains(url, <<":", "/", "/">>)
    \/ web[url].net # "ok"
    \/ web[url].status >= 400

Min(a, b) == IF a < b THEN a ELSE b

\* ---- C1 ----
\* C1: crawl_many never raises; every failed crawl of the batch left, at its
\* place, a record of type error with that URL and the exception's message;
\* and the loop went on after it: each URL of the batch (urls[:20]) has been
\* crawled when the loop is over, whatever failed before it.
C1_FailuresIsolated ==
    cm.pc \in {"loop", "done", "raised"} =>
        /\ cm.pc # "raised"
        /\ Len(cm.results) = cm.i - 1
        /\ \A k \in 1..Len(cm.results) :
              Fails(cm.urls[k], cm.web) =>
                  /\ cm.results[k].type = "error"
                  /\ cm.results[k].url = cm.urls[k]
                  /\ cm.results[k].error = crawl_url(cm.urls[k], cm.web).exc.msg
        /\ cm.pc = "done" => Len(cm.results) = Min(Len(cm.urls), 20)

\* a batch is over in which a failure (a timeout) was followed by a success
C1_Witness ==
    /\ cm.pc = "done"
    /\ \E j, k \in 1..Len(cm.results) :
          /\ j < k
          /\ cm.urls[j] \in DOMAIN cm.web
          /\ cm.web[cm.urls[j]].net = "timeout"
          /\ cm.results[j].type = "error"
          /\ cm.results[k].type = "html"
    /\ \E k \in 1..Len(cm.results) : cm.urls[k] = NotAUrl

\* ---- C2 ----
\* the record the spec's fold yields for one URL
RecordFor(url, web) ==
    IF Fails(url, web)
    THEN [type |-> "error", url |-> url, error |-> crawl_url(url, web).exc.msg]
    ELSE crawl_url(url, web).value

\* C2 as claimed: the returned list has exactly len(urls) records, the i-th
\* being the result for urls[i].
C2_Claimed_OneRecordPerUrl ==
    cm.pc = "done" =>
        /\ Len(cm.results) = Len(cm.urls)
        /\ \A k \in 1..Len(cm.urls) : cm.results[k] = RecordFor(cm.urls[k], cm.web)

\* C2 amended: the returned list has exactly min(len(urls), 20) records, the
\* i-th being the success-or-error result for urls[i]: each of the first 20
\* input URLs is represented once, in input order, the rest not at all.
C2_OneRecordPerUrlUpTo20 ==
    cm.pc = "done" =>
        /\ Len(cm.results) = Min(Len(cm.urls), 20)
        /\ \A k \in 1..Len(cm.results) : cm.results[k] = RecordFor(cm.urls[k], cm.web)

\* a batch of more than 20 URLs is over, holding successes and errors
C2_Witness ==
    /\ cm.pc = "done"
    /\ Len(cm.urls) > 20
    /\ Len(cm.results) = 20
    /\ \E j, k \in 1..20 : cm.results[j].type = "error" /\ cm.results[k].type = "non-html"

(***************************************************************************)
(* Document text extractors (lines 208-230).  What pypdf / python-docx     *)
(* make of the bytes is the library's: lib.kind is "missing" (the import   *)
(* fails), "malformed" (the reader raises) or "ok" with the page texts or  *)
(* paragraph texts in document order.                                      *)
(***************************************************************************)
NotBlank(t) == Len(strip(t)) > 0

_extract_pdf_text(lib) ==
    IF lib.kind = "missing" THEN Raise("RuntimeError", <<"PDF support requires pypdf">>)
    ELSE IF lib.kind = "malformed" THEN Raise("PdfReadError", <<"malformed">>)
    ELSE Return(_clean_text(join(<<"\n">>, SelectSeq(lib.parts, NotBlank))))

_extract_docx_text(lib) ==
    IF lib.kind = "missing"
    THEN Raise("RuntimeError", <<"DOCX support requires python-docx">>)
    ELSE IF lib.kind = "malformed" THEN Raise("PackageNotFoundError", <<"malformed">>)
    ELSE Return(_clean_text(join(<<"\n">>, SelectSeq(lib.parts, NotBlank))))

(***************************************************************************)
(* _extract_file_content (lines 233-255).  data is a sequence of chunks:   *)
(* a chunk is one byte of text, one byte that is not valid UTF-8 (name     *)
(* "#byte"), or the bytes of one element; chunk.src are its characters.    *)
(***************************************************************************)
\* data.decode("utf-8", errors="ignore"): the markup, invalid bytes dropped
decode(data) == SelectSeq(data, LAMBDA c : c.name # "#byte")

\* the characters of a decoded text
RECURSIVE chars(_)
chars(text) == IF Len(text) = 0 THEN <<>> ELSE Head(text).src \o chars(Tail(text))

Sfx(name) == <<".">> \o name

PdfSfx == Sfx(<<"p", "d", "f">>)

DocxSfx == Sfx(<<"d", "o", "c", "x">>)

MarkdownSfx == {Sfx(<<"m", "d">>), Sfx(<<"m", "a", "r", "k", "d", "o", "w", "n">>)}

TextSfx ==
    {Sfx(<<"t", "x", "t">>), Sfx(<<"l", "o", "g">>), Sfx(<<"c", "s", "v">>),
     Sfx(<<"j", "s", "o", "n">>), Sfx(<<"x", "m", "l">>)}

HtmlOpener == <<"<", "h", "t", "m", "l">>

DoctypeOpener ==
    <<"<", "!", "d", "o", "c", "t", "y", "p", "e", " ", "h", "t", "m", "l">>

\* line 234
file_path_keep_case(source) == split_first(source, "?")

file_path(source) == split_first(lower(source), "?")

\* line 250
sniffs_html(text) ==
    \/ contains(lower(chars(text)), HtmlOpener)
    \/ contains(lower(chars(text)), DoctypeOpener)

\* lines 246, 248: text_length of a markdown / text record
clean_length_raw(text) == Len(chars(text))

clean_length(text) == Len(_clean_text(chars(text)))

_extract_file_content(data, source, lib) ==
    LET path == file_path(source)
        text == decode(data)
    IN  IF endswith(path, PdfSfx)
        THEN LET t == _extract_pdf_text(lib)
             IN  IF t.raised THEN t
                 ELSE Return([type |-> "pdf", source |-> source,
                              text |-> t.value, text_length |-> Len(t.value)])
        ELSE IF endswith(path, DocxSfx)
        THEN LET t == _extract_docx_text(lib)
             IN  IF t.raised THEN t
                 ELSE Return([type |-> "docx", source |-> source,
                              text |-> t.value, text_length |-> Len(t.value)])
        ELSE IF \E sfx \in MarkdownSfx : endswith(path, sfx)
        THEN Return([type |-> "markdown", source |-> source,
                     text |-> _clean_text(chars(text)),
                     text_length |-> clean_length(text)])
        ELSE IF \E sfx \in TextSfx : endswith(path, sfx)
        THEN Return([type |-> "text", source |-> source,
                     text |-> _clean_text(chars(text)),
                     text_length |-> clean_length(text)])
        ELSE IF sniffs_html(text)
        THEN Return([_extract_html_content(text, source) EXCEPT !.type = "html-file"])
        ELSE Return([type |-> "binary-or-unknown", source |-> source,
                     text |-> <<>>, text_length |-> 0])

\* urlparse(source).scheme: the lower-cased text before "://", if any
scheme_of(source) ==
    IF has_scheme(source) THEN lower(split_first(source, ":")) ELSE <<>>

HttpSchemes == {<<"h", "t", "t", "p">>, <<"h", "t", "t", "p", "s">>}

\* lines 326-338; fs maps the paths that exist to their bytes
crawl_file(source, web, fs, lib) ==
    IF scheme_of(source) \in HttpSchemes
    THEN LET d == _download(source, web)
         IN  IF d.raised THEN d
             ELSE _extract_file_content(d.value.content, source, lib)
    ELSE IF source \notin DOMAIN fs
    THEN Raise("RuntimeError", <<"File not found: ">> \o source)
    ELSE _extract_file_content(fs[source], source, lib)

(***************************************************************************)
(* Calls of crawl_url and crawl_file on bounded inputs.                    *)
(***************************************************************************)
MaxDocLen == 4

MaxFileLen == 2

Tag(name, texts, attr) == [name |-> name, texts |-> texts, attr |-> attr]

NoAttr == [id |-> "x"]

\* head elements a document draws from: a <title> with and without text, an
\* <h1> with and without text, the two description metas, one without content
HeadElements ==
    { Tag("title", << <<" ", "T", " ">> >>, NoAttr),
      Tag("title", << <<" ">> >>, NoAttr),
      Tag("h1", << <<"H">>, <<" ", "b", " ">> >>, NoAttr),
      Tag("h1", <<>>, NoAttr),
      Tag("meta", <<>>, [name |-> "description", content |-> <<" ", "d", "n", " ">>]),
      Tag("meta", <<>>, [name |-> "description"]),
      Tag("meta", <<>>, [property |-> "og:description", content |-> <<"o", "g">>]) }

Bodies ==
    { <<>>,
      << Tag("script", << <<"j", "s">> >>, NoAttr),
         Tag("main", << <<" ", "m">>, <<"\n", " ", "x", " ", " ", "y">> >>, NoAttr) >>,
      << Tag("p", << <<"p", " ">> >>, NoAttr), Anchor(<<"/", "n">>),
         Anchor(<<"/", "n">>) >> }

SeqsUpTo(S, n) == UNION { [1..k -> S] : k \in 0..n }

OkWith(ctype, doc) ==
    [net |-> "ok", status |-> 200, headers |-> ContentType(ctype), doc |-> doc,
     size |-> Len(doc)]

OtherContentTypes ==
    { <<"T", "E", "X", "T", "/", "H", "T", "M", "L">>,
      AppXhtml \o <<"+", "x", "m", "l">>,
      <<"t", "e", "x", "t", "/", "p", "l", "a", "i", "n">>,
      <<>> }

NoContentType ==
    [net |-> "ok", status |-> 200, headers |-> [server |-> <<"x">>],
     doc |-> <<>>, size |-> 7]

Chunk(name, texts, src) == [name |-> name, texts |-> texts, attr |-> NoAttr, src |-> src]

Ch(c) == Chunk("#text", << <<c>> >>, <<c>>)

FileChunks ==
    { Ch("a"), Ch(" "),
      Chunk("#byte", <<>>, <<>>),
      Chunk("html", <<>>, <<"<", "h", "t", "m", "l", ">">>),
      Chunk("html", <<>>, <<"<", "H", "t", "M", "L", ">">>),
      Chunk("#doctype", <<>>,
            <<"<", "!", "D", "O", "C", "T", "Y", "P", "E", " ", "h", "t", "m", "l", ">">>),
      Chunk("title", << <<" ", "T">> >>,
            <<"<", "t", "i", "t", "l", "e", ">", " ", "T", "<", "/", "t", "i", "t", "l", "e", ">">>) }

SourceRoots == {Https \o <<"h", "/", "d", "/", "a">>, <<"/", "d", "/", "a">>}

SourceExts ==
    { <<>>, PdfSfx, <<".", "P", "D", "F">>, DocxSfx, Sfx(<<"m", "d">>),
      Sfx(<<"m", "a", "r", "k", "d", "o", "w", "n">>), Sfx(<<"t", "x", "t">>),
      <<".", "T", "x", "t">>, Sfx(<<"l", "o", "g">>), Sfx(<<"c", "s", "v">>),
      Sfx(<<"j", "s", "o", "n">>), Sfx(<<"x", "m", "l">>),
      Sfx(<<"h", "t", "m", "l">>), Sfx(<<"p", "d", "f", "s">>) }

SourceTails ==
    { <<>>, <<"?", "v", "=", "1">>, <<"?", "f", "=", "b", ".", "p", "d", "f">>,
      <<"#", "s">> }

Sources == { r \o e \o t : r \in SourceRoots, e \in SourceExts, t \in SourceTails }

FileResponse(data) ==
    [net |-> "ok", status |-> 200, headers |-> [server |-> <<"x">>], content |-> data]

\* what the document library makes of the bytes
LibResults ==
    { [kind |-> "missing"], [kind |-> "malformed"],
      [kind |-> "ok", parts |-> <<>>],
      [kind |-> "ok", parts |-> << <<"p", "1">>, <<" ", "\n">>, <<"p", " ", " ", "3">> >>] }

NoFiles == [f \in {} |-> <<>>]

UrlCall(r) ==
    [pc |-> "call", op |-> "crawl_url", url |-> PageUrl, web |-> [u \in {PageUrl} |-> r]]

RemoteFileCall(src, r) ==
    [pc |-> "call", op |-> "crawl_file", source |-> src,
     web |-> [u \in {src} |-> r], fs |-> NoFiles]

LocalFileCall(src, fs) ==
    [pc |-> "call", op |-> "crawl_file", source |-> src,
     web |-> [u \in {} |-> Refused], fs |-> fs]

ExtractInit ==
    /\ \/ \E r \in {TimedOut, Refused, NotFound, NoContentType} : call = UrlCall(r)
       \/ \E k \in 0..MaxDocLen : \E h \in [1..k -> HeadElements] : \E b \in Bodies :
             call = UrlCall(OkWith(TextHtml \o <<";", " ", "q">>, h \o b))
       \/ \E c \in OtherContentTypes : \E b \in Bodies : call = UrlCall(OkWith(c, b))
       \/ \E r \in SourceRoots : \E e \in SourceExts : \E t \in SourceTails :
             LET src == r \o e \o t
             IN  IF has_scheme(src)
                 THEN \/ \E f \in {Refused, NotFound} : call = RemoteFileCall(src, f)
                      \/ \E k \in 0..MaxFileLen : \E d \in [1..k -> FileChunks] :
                            call = RemoteFileCall(src, FileResponse(d))
                 ELSE \/ call = LocalFileCall(src, NoFiles)
                      \/ \E k \in 0..MaxFileLen : \E d \in [1..k -> FileChunks] :
                            call = LocalFileCall(src, [f \in {src} |-> d])
    /\ ret = [pc |-> "pending"]
    /\ cm = Idle /\ lk = Idle /\ sm = Idle /\ xs = Idle /\ sec = Idle

CrawlUrl ==
    /\ call.op = "crawl_url"
    /\ ret.pc = "pending"
    /\ ret' = [pc |-> "returned", out |-> crawl_url(call.url, call.web)]
    /\ UNCHANGED <<call, cm, lk, sm, xs, sec>>

CrawlFile ==
    /\ call.op = "crawl_file"
    /\ ret.pc = "pending"
    /\ \E lib \in LibResults :
          ret' = [pc |-> "returned",
                  out |-> crawl_file(call.source, call.web, call.fs, lib)]
    /\ UNCHANGED <<call, cm, lk, sm, xs, sec>>

ExtractNext == CrawlUrl \/ CrawlFile

SpecExtract == ExtractInit /\ [][ExtractNext]_vars

\* the document a returned html / html-file record was extracted from
ParsedDoc ==
    IF call.op = "crawl_url" THEN BeautifulSoup(call.web[call.url].doc)
    ELSE IF has_scheme(call.source)
    THEN BeautifulSoup(decode(call.web[call.source].content))
    ELSE BeautifulSoup(decode(call.fs[call.source]))

ReturnedHtml ==
    /\ ret.pc = "returned"
    /\ ~ret.out.raised
    /\ ret.out.value.type \in {"html", "html-file"}

\* the text of the document's first element called name, "" without one
FirstText(doc, name) ==
    IF \E i \in 1..Len(doc) : doc[i].name = name
    THEN LET i == CHOOSE i \in 1..Len(doc) :
                      doc[i].name = name /\ \A j \in 1..(i - 1) : doc[j].name # name
         IN  get_text(doc[i].texts)
    ELSE <<>>

IsMeta(el, by, key) == el.name = "meta" /\ by \in DOMAIN el.attr /\ el.attr[by] = key

\* the trimmed content of the document's first <meta by=key>, "" without one
MetaValue(doc, by, key) ==
    IF \E i \in 1..Len(doc) : IsMeta(doc[i], by, key)
    THEN LET i == CHOOSE i \in 1..Len(doc) :
                      IsMeta(doc[i], by, key) /\ \A j \in 1..(i - 1) : ~IsMeta(doc[j], by, key)
         IN  IF "content" \in DOMAIN doc[i].attr THEN strip(doc[i].attr["content"])
             ELSE <<>>
    ELSE <<>>

FirstNonEmpty(a, b) == IF a # <<>> THEN a ELSE b

\* ---- C4 ----
\* C4 as claimed: title is the <h1> text when that is non-empty and the
\* <title> text otherwise; description is the og:description value when that
\* is non-empty and the description meta-name value otherwise.
C4_Claimed_H1AndOgFirst ==
    ReturnedHtml =>
        /\ ret.out.value.title =
              FirstNonEmpty(FirstText(ParsedDoc, "h1"), FirstText(ParsedDoc, "title"))
        /\ ret.out.value.description =
              FirstNonEmpty(MetaValue(ParsedDoc, "property", "og:description"),
                            MetaValue(ParsedDoc, "name", "description"))

\* C4 amended: title is the <title> text when that is non-empty and the <h1>
\* text only otherwise; description is the description meta-name value when
\* that is non-empty and the og:description value only otherwise (each taken
\* from the first such element of the document).
C4_TitleAndMetaNameFirst ==
    ReturnedHtml =>
        /\ ret.out.value.title =
              FirstNonEmpty(FirstText(ParsedDoc, "title"), FirstText(ParsedDoc, "h1"))
        /\ ret.out.value.description =
              FirstNonEmpty(MetaValue(ParsedDoc, "name", "description"),
                            MetaValue(ParsedDoc, "property", "og:description"))

\* a page was extracted on which <title> and <h1> are both non-empty and
\* differ, and so do the two description metas
C4_Witness ==
    /\ ReturnedHtml
    /\ FirstText(ParsedDoc, "title") # <<>>
    /\ FirstText(ParsedDoc, "h1") # <<>>
    /\ FirstText(ParsedDoc, "title") # FirstText(ParsedDoc, "h1")
    /\ MetaValue(ParsedDoc, "name", "description") # <<>>
    /\ MetaValue(ParsedDoc, "property", "og:description") # <<>>
    /\ MetaValue(ParsedDoc, "name", "description")
         # MetaValue(ParsedDoc, "property", "og:description")

\* ---- C7 ----
\* the bytes crawl_file handed to the dispatcher, when it got any
GotBytes ==
    /\ call.pc = "call" /\ call.op = "crawl_file"
    /\ IF has_scheme(call.source)
       THEN call.web[call.source].net = "ok" /\ call.web[call.source].status < 400
       ELSE call.source \in DOMAIN call.fs

FileBytes ==
    IF has_scheme(call.source) THEN call.web[call.source].content
    ELSE call.fs[call.source]

\* the characters of the bytes that are valid UTF-8, lower-cased
RECURSIVE LowerText(_)
LowerText(data) ==
    IF Len(data) = 0 THEN <<>>
    ELSE (IF Head(data).name = "#byte" THEN <<>> ELSE lower(Head(data).src))
         \o LowerText(Tail(data))

SuffixTable ==
    << <<PdfSfx, "pdf">>, <<DocxSfx, "docx">>,
       <<Sfx(<<"m", "d">>), "markdown">>,
       <<Sfx(<<"m", "a", "r", "k", "d", "o", "w", "n">>), "markdown">>,
       <<Sfx(<<"t", "x", "t">>), "text">>, <<Sfx(<<"l", "o", "g">>), "text">>,
       <<Sfx(<<"c", "s", "v">>), "text">>, <<Sfx(<<"j", "s", "o", "n">>), "text">>,
       <<Sfx(<<"x", "m", "l">>), "text">> >>

\* the rows of the suffix table that the lower-cased, query-stripped source ends with
SuffixRows(source) ==
    { r \in 1..Len(SuffixTable) :
        endswith(split_first(lower(source), "?"), SuffixTable[r][1]) }

\* the type the spec's decision order gives a (bytes, source) pair
DispatchType(data, source) ==
    IF SuffixRows(source) # {}
    THEN SuffixTable[CHOOSE r \in SuffixRows(source) : TRUE][2]
    ELSE IF contains(LowerText(data), HtmlOpener) \/ contains(LowerText(data), DoctypeOpener)
    THEN "html-file"
    ELSE "binary-or-unknown"

\* C7: the record crawl_file returns has the type the decision order gives:
\* suffix first, sniffing only without a suffix match, binary-or-unknown (with
\* empty text and zero length) for the rest; only the pdf and docx readers
\* can fail.
C7_DispatchOrder ==
    (GotBytes /\ ret.pc = "returned") =>
        IF ret.out.raised
        THEN DispatchType(FileBytes, call.source) \in {"pdf", "docx"}
        ELSE /\ ret.out.value.type = DispatchType(FileBytes, call.source)
             /\ ret.out.value.type = "binary-or-unknown" =>
                   ret.out.value.text = <<>> /\ ret.out.value.text_length = 0

\* a file whose source ends in an upper-case text suffix plus a query and whose
\* bytes hold an HTML opener came back as type text
C7_Witness ==
    /\ GotBytes /\ ret.pc = "returned" /\ ~ret.out.raised
    /\ ret.out.value.type = "text"
    /\ contains(LowerText(FileBytes), HtmlOpener)
    /\ contains(call.source, <<"T", "x", "t", "?">>)

\* ---- C8 ----
\* C8: every record crawl_url or crawl_file returns that carries a text field
\* has text_length equal to the length of that text.
C8_TextLengthIsLen ==
    (ret.pc = "returned" /\ ~ret.out.raised /\ "text" \in DOMAIN ret.out.value) =>
        ret.out.value.text_length = Len(ret.out.value.text)

\* a markdown record whose text is non-empty and shorter than the decoded bytes
C8_Witness ==
    /\ GotBytes /\ ret.pc = "returned" /\ ~ret.out.raised
    /\ ret.out.value.type = "markdown"
    /\ Len(ret.out.value.text) > 0
    /\ ret.out.value.text_length < Len(LowerText(FileBytes))

(***************************************************************************)
(* crawl_sitemap (lines 305-322).  An XML tree is the sequence of its      *)
(* elements in document order, as root.iter() visits them; an element is   *)
(* [ns, local, text]: ElementTree's tag is "{ns}local" for an element in a *)
(* namespace and "local" otherwise; text.has is FALSE where node.text is   *)
(* None.                                                                   *)
(***************************************************************************)
tag_of(node) ==
    IF Len(node.ns) > 0 THEN <<"{">> \o node.ns \o <<"}">> \o node.local
    ELSE node.local

Loc == <<"l", "o", "c">>

\* line 314: tag.endswith("loc") and node.text
is_loc(node) ==
    /\ endswith(lower(tag_of(node)), Loc)
    /\ node.text.has
    /\ Len(node.text.v) > 0

\* lines 311-315
RECURSIVE collect_locs(_)
collect_locs(nodes) ==
    IF Len(nodes) = 0 THEN <<>>
    ELSE (IF is_loc(Head(nodes)) THEN <<strip(Head(nodes).text.v)>> ELSE <<>>)
         \o collect_locs(Tail(nodes))

\* line 317: max(1, min(200, int(limit)))
clamp_limit(limit) ==
    LET upper == IF limit < 200 THEN limit ELSE 200
    IN  IF upper > 1 THEN upper ELSE 1

\* urls[:limit]
prefix(s, n) == SubSeq(s, 1, IF Len(s) < n THEN Len(s) ELSE n)

crawl_sitemap(sitemap_url, limit, web) ==
    LET d == _download(sitemap_url, web)
    IN  IF d.raised THEN d
        ELSE IF ~d.value.xml.wellformed THEN Raise("ParseError", <<"syntax error">>)
        ELSE LET urls == collect_locs(d.value.xml.nodes)
             IN  Return([sitemap_url |-> sitemap_url,
                         total_urls  |-> Len(urls),
                         urls        |-> prefix(urls, clamp_limit(limit))])

MaxXmlNodes == 3

SitemapNs == <<"s", "m">>

Node(ns, local, text) == [ns |-> ns, local |-> local, text |-> text]

Text(v) == [has |-> TRUE, v |-> v]

NoText == [has |-> FALSE, v |-> <<>>]

XmlNodes ==
    { Node(SitemapNs, Loc, Text(<<"u", "1">>)),
      Node(<<>>, <<"L", "o", "C">>, Text(<<"\n", " ", "u", "2", " ">>)),
      Node(SitemapNs, <<"g", "e", "o", "l", "o", "c">>, Text(<<"g">>)),
      Node(<<>>, Loc, NoText),
      Node(SitemapNs, Loc, Text(<<" ">>)),
      Node(SitemapNs, <<"l", "a", "s", "t", "m", "o", "d">>, Text(<<"d">>)),
      Node(SitemapNs, <<"u", "r", "l">>, Text(<<"\n">>)) }

UrlSet == Node(SitemapNs, <<"u", "r", "l", "s", "e", "t">>, NoText)

SitemapUrl == Https \o <<"h", "/", "s", ".", "x", "m", "l">>

Limits == {-5, 0, 1, 2, 3, 20, 200, 201}

XmlResponse(xml) ==
    [net |-> "ok", status |-> 200, headers |-> [server |-> <<"x">>], xml |-> xml]

SitemapCall(limit, r) ==
    [pc |-> "call", sitemap_url |-> SitemapUrl, limit |-> limit,
     web |-> [u \in {SitemapUrl} |-> r]]

SitemapInit ==
    /\ \E limit \in Limits :
          \/ \E r \in {Refused, NotFound, XmlResponse([wellformed |-> FALSE, nodes |-> <<>>])} :
                sm = SitemapCall(limit, r)
          \/ \E k \in 0..MaxXmlNodes : \E nodes \in [1..k -> XmlNodes] :
                sm = SitemapCall(limit,
                        XmlResponse([wellformed |-> TRUE, nodes |-> <<UrlSet>> \o nodes]))
    /\ cm = Idle /\ lk = Idle /\ call = Idle /\ ret = Idle /\ xs = Idle /\ sec = Idle

CrawlSitemap ==
    /\ sm.pc = "call"
    /\ sm' = [sm EXCEPT !.pc = "returned"]
                @@ [out |-> crawl_sitemap(sm.sitemap_url, sm.limit, sm.web)]
    /\ UNCHANGED <<cm, lk, call, ret, xs, sec>>

SitemapNext == CrawlSitemap

SpecSitemap == SitemapInit /\ [][SitemapNext]_vars

\* ---- C5 ----
\* the elements whose namespace-stripped name is loc, whatever its case, and
\* that have a text to trim (an element without text has no URL to give; the
\* code leaves it out as well, so the reading decides nothing here)
LocElements(nodes) ==
    SelectSeq(nodes, LAMBDA n : lower(n.local) = <<"l", "o", "c">> /\ n.text.has)

\* C5 as claimed: total_urls is the number of elements whose local name is
\* loc (case-insensitively) and of no other element, and urls is the first
\* min(max(1, min(200, limit)), total_urls) of their trimmed texts, in
\* document order.
C5_Claimed_LocalNameEqualsLoc ==
    (sm.pc = "returned" /\ ~sm.out.raised) =>
        LET locs  == LocElements(sm.web[sm.sitemap_url].xml.nodes)
            lim   == IF sm.limit > 200 THEN 200 ELSE IF sm.limit < 1 THEN 1 ELSE sm.limit
            count == IF Len(locs) < lim THEN Len(locs) ELSE lim
        IN  /\ sm.out.value.total_urls = Len(locs)
            /\ sm.out.value.urls = [i \in 1..count |-> strip(locs[i].text.v)]

(***************************************************************************)
(* extract_structured (lines 341-366).  A JSON value is [t, s, items]: t   *)
(* its type ("str", "list", "num", "null", "obj", "bool"), s the string of *)
(* a "str" (a type selector), items the elements of a "list".  A schema    *)
(* text is "invalid", a non-object value, or the key/value pairs of an     *)
(* object as written; json.loads keeps a repeated key once, at its first   *)
(* place, with its last value.                                             *)
(***************************************************************************)
JStr(sel) == [t |-> "str", s |-> sel, items |-> <<>>]

JList(items) == [t |-> "list", s |-> "", items |-> items]

JOther(t) == [t |-> t, s |-> "", items |-> <<>>]

\* dict[key] = value on an insertion ordered dict, kept as a sequence of pairs
dict_set(d, key, value) ==
    IF \E i \in 1..Len(d) : d[i].key = key
    THEN [i \in 1..Len(d) |-> IF d[i].key = key THEN [key |-> key, value |-> value] ELSE d[i]]
    ELSE Append(d, [key |-> key, value |-> value])

RECURSIVE json_object(_, _)
json_object(pairs, d) ==
    IF Len(pairs) = 0 THEN d
    ELSE json_object(Tail(pairs), dict_set(d, Head(pairs).key, Head(pairs).value))

\* line 352: json.loads(schema_json)
json_loads(schema_json) ==
    IF schema_json.kind = "invalid" THEN Raise("JSONDecodeError", <<"Expecting value">>)
    ELSE IF schema_json.kind = "object"
    THEN Return([t |-> "obj", entries |-> json_object(schema_json.pairs, <<>>)])
    ELSE Return([t |-> schema_json.kind, entries |-> <<>>])

\* line 360: `and selector`
is_nonempty_unchecked(selector) == TRUE

is_nonempty(selector) == Len(selector.items) > 0

\* selector[0]
first_item(selector) ==
    IF Len(selector.items) = 0
    THEN Raise("IndexError", <<"list index out of range">>)
    ELSE Return(selector.items[1])

TextValue(text) == [t |-> "str", s |-> text, items |-> <<>>]

ListValue(items) == [t |-> "list", s |-> <<>>, items |-> items]

None == [t |-> "null", s |-> <<>>, items |-> <<>>]

\* lines 361-363
select_texts(soup, selector) ==
    LET found == select(soup, selector)
    IN  SelectSeq([i \in 1..Len(found) |-> get_text(found[i].texts)], NonEmpty)

\* lines 358-365: the value of one field
field_value(soup, selector) ==
    IF selector.t = "str" THEN Return(TextValue(_extract_text(soup, selector.s)))
    ELSE IF selector.t = "list" /\ is_nonempty(selector)
    THEN LET first == first_item(selector)
         IN  IF first.raised THEN first
             ELSE IF first.value.t = "str"
             THEN Return(ListValue(select_texts(soup, first.value.s)))
             ELSE Return(None)
    ELSE Return(None)

MaxFields == 2

SelectorValues ==
    { JStr("h1"), JStr("nav"),
      JList(<<JStr("li")>>), JList(<<JStr("nav")>>),
      JList(<<JStr("li"), JStr("h1")>>), JList(<<JStr("h1"), JOther("num")>>),
      JList(<<>>), JList(<<JOther("num")>>), JList(<<JOther("null"), JStr("li")>>),
      JList(<<JList(<<>>)>>),
      JOther("num"), JOther("null"), JOther("obj"), JOther("bool") }

SchemaKeys == {"title", "items"}

SchemaPairs == { [key |-> k, value |-> v] : k \in SchemaKeys, v \in SelectorValues }

ProductPage ==
    << Tag("h1", << <<" ", "X">>, <<"y", " ">> >>, NoAttr),
       Tag("li", << <<"a">> >>, NoAttr),
       Tag("li", << <<" ">> >>, NoAttr),
       Tag("h1", << <<"Z">> >>, NoAttr),
       Tag("li", << <<" ", "b">> >>, NoAttr) >>

PageResponse(doc) ==
    [net |-> "ok", status |-> 200, headers |-> ContentType(TextHtml), doc |-> doc,
     size |-> Len(doc)]

StructuredCall(schema_json, r) ==
    [pc |-> "call", url |-> PageUrl, schema_json |-> schema_json,
     web |-> [u \in {PageUrl} |-> r]]

StructuredInit ==
    /\ \/ \E kind \in {"invalid", "list", "str", "null"} :
             \E r \in {NotFound, PageResponse(ProductPage)} :
                xs = StructuredCall([kind |-> kind], r)
       \/ \E k \in 0..MaxFields : \E pairs \in [1..k -> SchemaPairs] :
             \E r \in {TimedOut, PageResponse(ProductPage), PageResponse(<<>>)} :
                xs = StructuredCall([kind |-> "object", pairs |-> pairs], r)
    /\ cm = Idle /\ lk = Idle /\ call = Idle /\ ret = Idle /\ sm = Idle /\ sec = Idle

\* lines 352-357: parse the schema, fetch and parse the page, enter the loop
ExtractStart ==
    /\ xs.pc = "call"
    /\ LET schema == json_loads(xs.schema_json)
           d      == _download(xs.url, xs.web)
       IN  IF schema.raised
           THEN xs' = [xs EXCEPT !.pc = "raised"] @@ [exc |-> schema.exc]
           ELSE IF d.raised
           THEN xs' = [xs EXCEPT !.pc = "raised"] @@ [exc |-> d.exc]
           ELSE IF schema.value.t # "obj"
           THEN xs' = [xs EXCEPT !.pc = "raised"]
                         @@ [exc |-> [class |-> "AttributeError", msg |-> <<"items">>]]
           ELSE xs' = [xs EXCEPT !.pc = "loop"]
                         @@ [schema |-> schema.value.entries,
                             soup   |-> BeautifulSoup(d.value.doc),
                             i      |-> 1,
                             fields |-> <<>>]
    /\ UNCHANGED <<cm, lk, call, ret, sm, sec>>

\* lines 357-365: one schema item
ExtractField ==
    /\ xs.pc = "loop"
    /\ xs.i <= Len(xs.schema)
    /\ LET v == field_value(xs.soup, xs.schema[xs.i].value)
       IN  IF v.raised
           THEN xs' = [xs EXCEPT !.pc = "raised"] @@ [exc |-> v.exc]
           ELSE xs' = [xs EXCEPT !.fields = dict_set(@, xs.schema[xs.i].key, v.value),
                                 !.i = @ + 1]
    /\ UNCHANGED <<cm, lk, call, ret, sm, sec>>

\* line 366
ExtractReturn ==
    /\ xs.pc = "loop"
    /\ xs.i > Len(xs.schema)
    /\ xs' = [xs EXCEPT !.pc = "done"]
    /\ UNCHANGED <<cm, lk, call, ret, sm, sec>>

StructuredNext == ExtractStart \/ ExtractField \/ ExtractReturn

SpecStructured == StructuredInit /\ [][StructuredNext]_vars

\* ---- C6 ----
\* the texts of the elements a type selector matches, in document order
MatchTexts(soup, sel) ==
    LET hits == SelectSeq(soup, LAMBDA el : el.name = sel)
    IN  [i \in 1..Len(hits) |-> get_text(hits[i].texts)]

ScalarOf(soup, sel) ==
    IF Len(MatchTexts(soup, sel)) > 0 THEN MatchTexts(soup, sel)[1] ELSE <<>>

ListOf(soup, sel) == SelectSeq(MatchTexts(soup, sel), LAMBDA t : t # <<>>)

\* the field value the claim gives a selector
ClaimedValue(soup, selector) ==
    IF selector.t = "str" THEN [t |-> "str", s |-> ScalarOf(soup, selector.s), items |-> <<>>]
    ELSE IF selector.t = "list" /\ Len(selector.items) = 1 /\ selector.items[1].t = "str"
    THEN [t |-> "list", s |-> <<>>, items |-> ListOf(soup, selector.items[1].s)]
    ELSE [t |-> "null", s |-> <<>>, items |-> <<>>]

\* the same, with the list rule for every list that starts with a string
AmendedValue(soup, selector) ==
    IF selector.t = "str" THEN [t |-> "str", s |-> ScalarOf(soup, selector.s), items |-> <<>>]
    ELSE IF selector.t = "list" /\ Len(selector.items) >= 1 /\ selector.items[1].t = "str"
    THEN [t |-> "list", s |-> <<>>, items |-> ListOf(soup, selector.items[1].s)]
    ELSE [t |-> "null", s |-> <<>>, items |-> <<>>]

\* the schema loop never raises, and the fields seen so far are the schema's
\* first keys in schema order
FieldsFollowSchema ==
    /\ xs.pc = "raised" => "schema" \notin DOMAIN xs
    /\ xs.pc \in {"loop", "done"} =>
          /\ Len(xs.fields) = (IF xs.pc = "done" THEN Len(xs.schema) ELSE xs.i - 1)
          /\ \A k \in 1..Len(xs.fields) : xs.fields[k].key = xs.schema[k].key

Headings == {"h2", "h3", "h4"}

Lists == {"ul", "ol"}

\* soup.find_all(["h2", "h3", "h4"]): the headings' positions, in order
heading_positions(soup) ==
    SelectSeq([i \in 1..Len(soup) |-> i], LAMBDA i : soup[i].name \in Headings)

\* h.find_next_siblings(): the nodes after h in its container
RECURSIVE find_next_siblings(_, _)
find_next_siblings(soup, h) ==
    IF h >= Len(soup) \/ soup[h + 1].name = "#break" THEN <<>>
    ELSE <<soup[h + 1]>> \o find_next_siblings(soup, h + 1)

\* [li.get_text(" ", strip=True) for li in sib.find_all("li")], the empty dropped
item_texts(sib) ==
    SelectSeq([i \in 1..Len(sib.items) |-> get_text(sib.items[i])], NonEmpty)

\* line 83
list_stops_never(sib) == FALSE

list_stops(sib) == sib.name \in Headings

\* lines 82-90: the scan of one heading's siblings; done is FALSE when the
\* loop runs out without a return
RECURSIVE scan_list(_)
scan_list(sibs) ==
    IF Len(sibs) = 0 THEN [done |-> FALSE, value |-> <<>>]
    ELSE IF list_stops(Head(sibs)) THEN [done |-> TRUE, value |-> <<>>]
    ELSE IF Head(sibs).name \in Lists
    THEN [done |-> TRUE, value |-> item_texts(Head(sibs))]
    ELSE scan_list(Tail(sibs))

\* lines 78-91: the loop over the headings
RECURSIVE section_list_loop(_, _, _)
section_list_loop(soup, hs, needle) ==
    IF Len(hs) = 0 THEN <<>>
    ELSE IF ~startswith(lower(get_text(soup[Head(hs)].texts)), needle)
    THEN section_list_loop(soup, Tail(hs), needle)
    ELSE LET r == scan_list(find_next_siblings(soup, Head(hs)))
         IN  IF r.done THEN r.value
             ELSE section_list_loop(soup, Tail(hs), needle)

_extract_section_list(soup, title) ==
    section_list_loop(soup, heading_positions(soup), lower(strip(title)))

\* lines 102, 124
text_stops_above_h4(sib) == sib.name \in {"h2", "h3"}

text_stops(sib) == sib.name \in Headings

\* lines 101-112 (lists TRUE) and 123-129 (lists FALSE): the parts gathered
\* from one heading's siblings
RECURSIVE gather_parts(_, _)
gather_parts(sibs, lists) ==
    IF Len(sibs) = 0 \/ text_stops(Head(sibs)) THEN <<>>
    ELSE LET sib  == Head(sibs)
             para == IF sib.name = "p" /\ Len(get_text(sib.texts)) > 0
                     THEN <<get_text(sib.texts)>> ELSE <<>>
             list == IF lists /\ sib.name \in Lists /\ Len(item_texts(sib)) > 0
                     THEN <<join(<<";", " ">>, item_texts(sib))>> ELSE <<>>
         IN  para \o list \o gather_parts(Tail(sibs), lists)

\* lines 96-114 and 118-131: the loop over the headings
RECURSIVE section_text_loop(_, _, _, _)
section_text_loop(soup, hs, needle, lists) ==
    IF Len(hs) = 0 THEN <<>>
    ELSE IF ~startswith(lower(get_text(soup[Head(hs)].texts)), needle)
    THEN section_text_loop(soup, Tail(hs), needle, lists)
    ELSE strip(join(<<" ">>, gather_parts(find_next_siblings(soup, Head(hs)), lists)))

_extract_section_text(soup, title) ==
    section_text_loop(soup, heading_positions(soup), lower(strip(title)), TRUE)

WhatIs == <<"w", "h", "a", "t", " ", "i", "s">>

_extract_what_is(soup) ==
    section_text_loop(soup, heading_positions(soup), WhatIs, FALSE)

MaxNodes == 4

Sect(name, texts, items) == [name |-> name, texts |-> texts, items |-> items]

PageNodes ==
    { Sect("h2", << <<"P", "r", "o", "s">> >>, <<>>),
      Sect("h4", << <<" ", "P", "R", "O", "S">>, <<"x", " ">> >>, <<>>),
      Sect("h3", << <<"W", "h", "a", "t", " ", "I", "s", " ", "X">> >>, <<>>),
      Sect("h2", << <<"W", "h", "o", " ", "i", "s", " ", "U", "s", "i", "n", "g", " ", "X">> >>, <<>>),
      Sect("p", << <<" ", "a">>, <<"b", " ">> >>, <<>>),
      Sect("p", << <<" ">> >>, <<>>),
      Sect("ul", <<>>, << << <<" ", "x", " ">> >>, << <<" ">> >>, << <<"y">> >> >>),
      Sect("ol", <<>>, << << <<"z">> >> >>),
      Sect("#break", <<>>, <<>>) }

ProsLabel == <<" ", "P", "r", "o", "s", " ">>

KeyFeaturesLabel == <<"K", "e", "y", " ", "F", "e", "a", "t", "u", "r", "e", "s">>

WhoLabel == <<"W", "h", "o", " ", "i", "s", " ", "U", "s", "i", "n", "g">>

SectionQueries ==
    { [fn |-> "list", title |-> ProsLabel], [fn |-> "list", title |-> KeyFeaturesLabel],
      [fn |-> "text", title |-> WhoLabel], [fn |-> "what_is", title |-> <<>>] }

SectionInit ==
    /\ \E k \in 0..MaxNodes : \E soup \in [1..k -> PageNodes] : \E q \in SectionQueries :
          sec = [pc |-> "call", fn |-> q.fn, title |-> q.title, soup |-> soup]
    /\ cm = Idle /\ lk = Idle /\ call = Idle /\ ret = Idle /\ sm = Idle /\ xs = Idle

SectionList ==
    /\ sec.pc = "call" /\ sec.fn = "list"
    /\ sec' = [sec EXCEPT !.pc = "returned"]
                 @@ [out |-> _extract_section_list(sec.soup, sec.title)]
    /\ UNCHANGED <<cm, lk, call, ret, sm, xs>>

SectionText ==
    /\ sec.pc = "call" /\ sec.fn = "text"
    /\ sec' = [sec EXCEPT !.pc = "returned"]
                 @@ [out |-> _extract_section_text(sec.soup, sec.title)]
    /\ UNCHANGED <<cm, lk, call, ret, sm, xs>>

SectionWhatIs ==
    /\ sec.pc = "call" /\ sec.fn = "what_is"
    /\ sec' = [sec EXCEPT !.pc = "returned"] @@ [out |-> _extract_what_is(sec.soup)]
    /\ UNCHANGED <<cm, lk, call, ret, sm, xs>>

SectionNext == SectionList \/ SectionText \/ SectionWhatIs

SpecSection == SectionInit /\ [][SectionNext]_vars

\* ---- C9, C10 ----
IsHeading(n) == n.name \in {"h2", "h3", "h4"}

IsList(n) == n.name \in {"ul", "ol"}

\* the label a query looks for, normalised
Needle == IF sec.fn = "what_is" THEN WhatIs ELSE lower(strip(sec.title))

\* the positions of the headings whose lower-cased text starts with the label
Matching(soup) ==
    { h \in 1..Len(soup) :
        IsHeading(soup[h]) /\ startswith(lower(get_text(soup[h].texts)), Needle) }

\* k is a sibling after h: no container boundary lies between them
SiblingAfter(soup, h, k) ==
    h < k /\ k <= Len(soup) /\ \A j \in (h + 1)..k : soup[j].name # "#break"

\* the siblings after h that decide a list query: headings and lists
Deciders(soup, h) ==
    { k \in 1..Len(soup) : SiblingAfter(soup, h, k) /\ (IsHeading(soup[k]) \/ IsList(soup[k])) }

MinOf(S) == CHOOSE x \in S : \A y \in S : x <= y

ItemsOf(n) ==
    SelectSeq([i \in 1..Len(n.items) |-> get_text(n.items[i])], LAMBDA t : t # <<>>)

\* what the siblings of heading h give a list query
ListAt(soup, h) ==
    IF Deciders(soup, h) = {} THEN <<>>
    ELSE LET k == MinOf(Deciders(soup, h))
         IN  IF IsList(soup[k]) THEN ItemsOf(soup[k]) ELSE <<>>

\* C9 as claimed: [] without a matching heading; otherwise what the siblings
\* of the first matching heading give: the items of the first list among
\* them, [] when a heading comes first (or when there is neither).
C9_Claimed_FirstMatchDecides ==
    (sec.pc = "returned" /\ sec.fn = "list") =>
        sec.out = IF Matching(sec.soup) = {} THEN <<>>
                  ELSE ListAt(sec.soup, MinOf(Matching(sec.soup)))

\* the matching headings that have a heading or a list among their siblings
Decisive(soup) == { h \in Matching(soup) : Deciders(soup, h) # {} }

\* C9 amended: [] without a matching heading; otherwise what the siblings of
\* the first matching heading that is followed by a list or heading sibling
\* give: the items of the first list among them, [] when a heading comes
\* first; a matching heading followed by neither is passed over, and the
\* result is [] when every matching heading is.
C9_FirstDecisiveMatch ==
    (sec.pc = "returned" /\ sec.fn = "list") =>
        sec.out = IF Decisive(sec.soup) = {} THEN <<>>
                  ELSE ListAt(sec.soup, MinOf(Decisive(sec.soup)))

\* a list query returned the items of the first list after its heading, a
\* second list following; and one returned [] for a heading before the list
C9_Witness ==
    /\ sec.pc = "returned" /\ sec.fn = "list"
    /\ Matching(sec.soup) # {}
    /\ LET h == MinOf(Matching(sec.soup))
       IN  /\ Cardinality({k \in Deciders(sec.soup, h) : IsList(sec.soup[k])}) = 2
           /\ IsList(sec.soup[MinOf(Deciders(sec.soup, h))])
           /\ Len(sec.out) = 2

\* the siblings after h up to the first h2/h3/h4 sibling
Between(soup, h) ==
    { k \in 1..Len(soup) :
        /\ SiblingAfter(soup, h, k)
        /\ \A j \in (h + 1)..k : ~IsHeading(soup[j]) }

\* the text a node contributes to a narrative section
PartOf(n, withLists) ==
    IF n.name = "p" THEN get_text(n.texts)
    ELSE IF withLists /\ IsList(n) THEN join(<<";", " ">>, ItemsOf(n))
    ELSE <<>>

\* the non-empty parts of the nodes at positions lo..hi that are in S, in order
RECURSIVE PartsIn(_, _, _, _, _)
PartsIn(soup, S, lo, hi, withLists) ==
    IF lo > hi THEN <<>>
    ELSE (IF lo \in S /\ PartOf(soup[lo], withLists) # <<>>
          THEN <<PartOf(soup[lo], withLists)>> ELSE <<>>)
         \o PartsIn(soup, S, lo + 1, hi, withLists)

\* C10: a narrative query returns "" without a matching heading; otherwise
\* the texts of the paragraphs (and, for _extract_section_text, the lists,
\* their items joined with "; ") among the siblings between the first matching
\* heading and the first h2/h3/h4 sibling after it, joined with one space;
\* nothing after that heading contributes, whatever the two headings' levels.
C10_NarrativeStopsAtNextHeading ==
    (sec.pc = "returned" /\ sec.fn \in {"text", "what_is"}) =>
        sec.out =
            IF Matching(sec.soup) = {} THEN <<>>
            ELSE LET h == MinOf(Matching(sec.soup))
                 IN  join(<<" ">>, PartsIn(sec.soup, Between(sec.soup, h), 1,
                                           Len(sec.soup), sec.fn = "text"))

\* a section opened by an h2 was closed by an h4, a paragraph with text
\* following the h4, and the result is the list before it, joined with "; "
C10_Witness ==
    /\ sec.pc = "returned" /\ sec.fn = "text"
    /\ Len(sec.soup) = 4
    /\ sec.soup[1].name = "h2" /\ 1 \in Matching(sec.soup)
    /\ sec.soup[2].name = "ul"
    /\ sec.soup[3].name = "h4"
    /\ sec.soup[4].name = "p" /\ get_text(sec.soup[4].texts) # <<>>
    /\ sec.out = <<"x", ";", " ", "y">>

====
